---- MODULE Spec2Model ----
(***************************************************************************)
(* A model of the product-sot recommendation service:                      *)
(*   - src/src/ocr_engine.py : the two OCR engines and the arbitration     *)
(*     between them (extract_text_with_fallback);                          *)
(*   - src/src/cnn_model.py  : the lazily loaded image classifier;         *)
(*   - src/app.py            : the detect-product request built on it.     *)
(*                                                                         *)
(* Texts are sequences of one-character strings.  Confidences are exact    *)
(* rationals in lowest terms, [num, den]; the floats of the code are       *)
(* quotients of small integers compared with the literals 0.5, 0.7, 0.8    *)
(* and 0.95, and correctly rounded division orders them as the rationals   *)
(* are ordered.                                                            *)
(***************************************************************************)
EXTENDS Integers, Sequences, FiniteSets, TLC

VARIABLES
    GEMINI_API_KEY,  \* ocr_engine.py: whether the cloud credential is set
    pc,              \* "idle" | "done": position of the current OCR request
    image,           \* the image bytes of the request, as what each engine makes of them
    calls,           \* the engine calls of the request, in order, with what each returned
    result,          \* the record extract_text_with_fallback returns
    raised,          \* whether an exception left the request's call
    _model,          \* cnn_model.py: the process-wide classifier handle
    _label_map,      \* cnn_model.py: the process-wide label map handle
    photo,           \* the files and the image bytes of the classifier call
    prediction,      \* what predict_stockcode_from_image returned
    loads,           \* the handles load_resources tried to load in the classifier call
    app,             \* app.py: df_products and vector_db as service initialization left them
    response         \* the JSON payload and status detect_product returned

vars == <<GEMINI_API_KEY, pc, image, calls, result, raised,
          _model, _label_map, photo, prediction, loads, app, response>>

----------------------------------------------------------------------------
(* Bounds of the model *)

MaxTextLen == 6
MaxTokens == 2
MaxNormLen == 4
NumClasses == 2

----------------------------------------------------------------------------
(* Rationals *)

RECURSIVE GCD(_, _)
GCD(a, b) == IF b = 0 THEN a ELSE GCD(b, a % b)

Rat(n, d) == LET g == GCD(n, d) IN [num |-> n \div g, den |-> d \div g]

Zero == Rat(0, 1)
RatLt(a, b) == a.num * b.den < b.num * a.den
RatLe(a, b) == a.num * b.den <= b.num * a.den

----------------------------------------------------------------------------
(* Strings: str.strip, str.lower, str.replace, str.join *)

Whitespace == {" "}

RECURSIVE LStrip(_)
LStrip(s) ==
    IF s = <<>> THEN s
    ELSE IF Head(s) \in Whitespace THEN LStrip(Tail(s)) ELSE s

RECURSIVE RStrip(_)
RStrip(s) ==
    IF s = <<>> THEN s
    ELSE IF s[Len(s)] \in Whitespace THEN RStrip(SubSeq(s, 1, Len(s) - 1)) ELSE s

Strip(s) == RStrip(LStrip(s))

LowerChar(c) ==
    CASE c = "A" -> "a"
      [] c = "H" -> "h"
      [] c = "L" -> "l"
      [] c = "O" -> "o"
      [] c = "S" -> "s"
      [] OTHER -> c

Lower(s) == [i \in 1..Len(s) |-> LowerChar(s[i])]

Replace(s, old, new) == [i \in 1..Len(s) |-> IF s[i] = old THEN new ELSE s[i]]

RECURSIVE Join(_)
Join(words) ==
    IF words = <<>> THEN <<>>
    ELSE IF Len(words) = 1 THEN words[1]
    ELSE words[1] \o <<" ">> \o Join(Tail(words))

StrUpTo(chars, n) == UNION {[1..k -> chars] : k \in 0..n}

RECURSIVE SumSeq(_)
SumSeq(s) == IF s = <<>> THEN 0 ELSE Head(s) + SumSeq(Tail(s))

----------------------------------------------------------------------------
(* Exceptions: a computation returns a value or raises *)

Return(v) == [kind |-> "return", value |-> v]
Raise == [kind |-> "raise", value |-> [text |-> <<>>, confidence |-> Zero, error |-> "exc"]]

----------------------------------------------------------------------------
(* ocr_with_gemini *)

GeminiConfidence(text) == IF Len(text) > 5 THEN Rat(95, 100) ELSE Rat(70, 100)

GeminiExcept == Return([text |-> <<>>, confidence |-> Zero, error |-> "exc"])

OcrWithGemini(key, img) ==
    IF ~key
    THEN Return([text |-> <<>>, confidence |-> Zero, error |-> "No API key"])
    ELSE IF ~img.decodable \/ img.cloud.kind = "raise"
    THEN GeminiExcept
    ELSE LET text == IF img.cloud.kind = "text" /\ img.cloud.text # <<>>
                     THEN Strip(img.cloud.text) ELSE <<>>
         IN  Return([text |-> text, confidence |-> GeminiConfidence(text),
                     error |-> "None"])

----------------------------------------------------------------------------
(* ocr_with_tesseract *)

KeepToken_From30(conf, word) == conf >= 30 /\ word # <<>>

KeepToken(conf, word) == conf > 30 /\ word # <<>>

KeptTokens(data) ==
    SelectSeq([i \in 1..Len(data) |-> [text |-> Strip(data[i].text), conf |-> data[i].conf]],
              LAMBDA t : KeepToken(t.conf, t.text))

TesseractConfidence(confs) ==
    IF confs # <<>> THEN Rat(SumSeq(confs), Len(confs) * 100) ELSE Zero

TesseractExcept_Reraise == Raise

TesseractExcept == Return([text |-> <<>>, confidence |-> Zero, error |-> "exc"])

OcrWithTesseract(img) ==
    IF ~img.decodable \/ img.local.kind = "raise"
    THEN TesseractExcept
    ELSE LET kept  == KeptTokens(img.local.data)
             words == [i \in 1..Len(kept) |-> kept[i].text]
             confs == [i \in 1..Len(kept) |-> kept[i].conf]
         IN  Return([text |-> Join(words), confidence |-> TesseractConfidence(confs),
                     error |-> "None"])

----------------------------------------------------------------------------
(* extract_text_with_fallback *)

InitResult ==
    [extracted_text |-> <<>>, cleaned_text |-> <<>>, confidence |-> Zero,
     ocr_source |-> "none", notes |-> ""]

GeminiAccepted_Above95(g) == RatLt(Rat(95, 100), g.confidence)

GeminiAccepted(g) == RatLe(Rat(8, 10), g.confidence)

TesseractWins_OnTies(t, g) == RatLe(g.confidence, t.confidence)

TesseractWins(t, g) == RatLt(g.confidence, t.confidence)

Call(engine, out) == [engine |-> engine, out |-> out]

Chosen(cs, engine, r) ==
    [raised |-> FALSE, calls |-> cs,
     result |-> [InitResult EXCEPT !.extracted_text = r.text,
                                   !.ocr_source = engine,
                                   !.confidence = r.confidence]]

Propagate(cs) == [raised |-> TRUE, calls |-> cs, result |-> InitResult]

CompareWithTesseract(cs, g, img) ==
    LET t  == OcrWithTesseract(img)
        tc == cs \o <<Call("tesseract", t)>>
    IN  IF t.kind = "raise" THEN Propagate(tc)
        ELSE IF TesseractWins(t.value, g) THEN Chosen(tc, "tesseract", t.value)
        ELSE Chosen(tc, "gemini", g)

TesseractOnly_Compare(cs, img) ==
    IF cs # <<>> THEN CompareWithTesseract(cs, cs[1].out.value, img)
    ELSE LET t  == OcrWithTesseract(img)
             tc == cs \o <<Call("tesseract", t)>>
         IN  IF t.kind = "raise" THEN Propagate(tc) ELSE Chosen(tc, "tesseract", t.value)

TesseractOnly_SkipEmpty(cs, img) ==
    LET t  == OcrWithTesseract(img)
        tc == cs \o <<Call("tesseract", t)>>
    IN  IF t.kind = "raise" THEN Propagate(tc)
        ELSE IF t.value.text = <<>> THEN [raised |-> FALSE, calls |-> tc, result |-> InitResult]
        ELSE Chosen(tc, "tesseract", t.value)

TesseractOnly(cs, img) ==
    LET t  == OcrWithTesseract(img)
        tc == cs \o <<Call("tesseract", t)>>
    IN  IF t.kind = "raise" THEN Propagate(tc) ELSE Chosen(tc, "tesseract", t.value)

Arbitrate_EagerLocal(key, img) ==
    LET t  == OcrWithTesseract(img)
        tc == <<Call("tesseract", t)>>
    IN  IF key
        THEN LET g  == OcrWithGemini(key, img)
                 cs == tc \o <<Call("gemini", g)>>
             IN  IF GeminiAccepted(g.value) THEN Chosen(cs, "gemini", g.value)
                 ELSE IF g.value.text # <<>> /\ ~TesseractWins(t.value, g.value)
                 THEN Chosen(cs, "gemini", g.value)
                 ELSE Chosen(cs, "tesseract", t.value)
        ELSE Chosen(tc, "tesseract", t.value)

Arbitrate(key, img) ==
    IF key
    THEN LET g  == OcrWithGemini(key, img)
             gc == <<Call("gemini", g)>>
         IN  IF g.kind = "raise" THEN Propagate(gc)
             ELSE IF GeminiAccepted(g.value) THEN Chosen(gc, "gemini", g.value)
             ELSE IF g.value.text # <<>> THEN CompareWithTesseract(gc, g.value, img)
             ELSE TesseractOnly(gc, img)
    ELSE TesseractOnly(<<>>, img)

Postprocess_TrimOnly(text) ==
    Replace(Replace(Replace(Strip(text), "0", "o"), "1", "l"), "5", "s")

Postprocess_MissingFive(text) ==
    Replace(Replace(Strip(Lower(text)), "0", "o"), "1", "l")

Postprocess(text) ==
    Replace(Replace(Replace(Strip(Lower(text)), "0", "o"), "1", "l"), "5", "s")

LowConfidence_AtMostHalf(c) == RatLe(c, Rat(5, 10))

LowConfidence(c) == RatLt(c, Rat(5, 10))

LowConfidenceNote == "low_confidence: result may be inaccurate"

Finish(res) ==
    [res EXCEPT !.cleaned_text = Postprocess(res.extracted_text),
                !.notes = IF LowConfidence(res.confidence) THEN LowConfidenceNote ELSE @]

----------------------------------------------------------------------------
(* Images: what the cloud service and the local recogniser make of the bytes *)

CloudRaise == [kind |-> "raise", text |-> <<>>]
CloudNone == [kind |-> "none", text |-> <<>>]
CloudText(t) == [kind |-> "text", text |-> t]
LocalRaise == [kind |-> "raise", data |-> <<>>]
LocalData(d) == [kind |-> "data", data |-> d]
Token(w, c) == [text |-> w, conf |-> c]

Undecodable == [decodable |-> FALSE, cloud |-> CloudRaise, local |-> LocalRaise]

ImagesOf(texts, tokens, n) ==
    {Undecodable} \cup
    [decodable : {TRUE},
     cloud : {CloudRaise, CloudNone} \cup {CloudText(t) : t \in texts},
     local : {LocalRaise} \cup {LocalData(d) : d \in StrUpTo(tokens, n)}]

Hello015 == <<"H", "e", "l", "l", "o", "0", "1", "5">>

CloudChars == {"A", "1", " "}
CloudTexts == StrUpTo(CloudChars, MaxTextLen) \cup {Hello015}
LocalTokens == {Token(<<"b">>, c) : c \in {30, 40, 60, 100}} \cup {Token(<<" ">>, 100)}

Images == ImagesOf(CloudTexts, LocalTokens, MaxTokens)

----------------------------------------------------------------------------
(* cnn_model.py: load_resources and predict_stockcode_from_image *)

NoModel == [loaded |-> FALSE]
LoadedModel == [loaded |-> TRUE]
NoLabelMap == [loaded |-> FALSE, keys |-> "none", items |-> <<>>]
LabelMap(keys, items) == [loaded |-> TRUE, keys |-> keys, items |-> items]

Prediction(label, confidence) == [kind |-> "return", label |-> label, confidence |-> confidence]
PredictionRaised == [kind |-> "raise", label |-> "", confidence |-> Zero]
NoPrediction == [kind |-> "none", label |-> "", confidence |-> Zero]

(* The model handle after load_resources, whether load_model was called and
   whether it raised *)
LoadModel(m, files) ==
    IF ~m.loaded
    THEN IF files.model = "ok"
         THEN [model |-> LoadedModel, raised |-> FALSE, attempted |-> TRUE]
         ELSE IF files.model = "corrupt"
         THEN [model |-> m, raised |-> TRUE, attempted |-> TRUE]
         ELSE [model |-> m, raised |-> FALSE, attempted |-> FALSE]
    ELSE [model |-> m, raised |-> FALSE, attempted |-> FALSE]

LoadLabelMap_Reload(l, files) ==
    IF files.labels = "ok"
    THEN [label_map |-> LabelMap("int", files.items), raised |-> FALSE, attempted |-> TRUE]
    ELSE IF files.labels = "bad_keys"
    THEN [label_map |-> LabelMap("str", files.items), raised |-> TRUE, attempted |-> TRUE]
    ELSE IF files.labels = "bad_json"
    THEN [label_map |-> l, raised |-> TRUE, attempted |-> TRUE]
    ELSE [label_map |-> l, raised |-> FALSE, attempted |-> FALSE]

(* The label map handle after load_resources, whether json.load was called and
   whether it or int() raised *)
LoadLabelMap(l, files) ==
    IF ~l.loaded
    THEN IF files.labels = "ok"
         THEN [label_map |-> LabelMap("int", files.items), raised |-> FALSE,
               attempted |-> TRUE]
         ELSE IF files.labels = "bad_keys"
         THEN [label_map |-> LabelMap("str", files.items), raised |-> TRUE,
               attempted |-> TRUE]
         ELSE IF files.labels = "bad_json"
         THEN [label_map |-> l, raised |-> TRUE, attempted |-> TRUE]
         ELSE [label_map |-> l, raised |-> FALSE, attempted |-> FALSE]
    ELSE [label_map |-> l, raised |-> FALSE, attempted |-> FALSE]

LoadResources(m, l, files) ==
    LET lm == LoadModel(m, files)
        ml == IF lm.attempted THEN {"_model"} ELSE {}
    IN  IF lm.raised
        THEN [model |-> lm.model, label_map |-> l, raised |-> TRUE, loads |-> ml]
        ELSE LET ll == LoadLabelMap(l, files)
             IN  [model |-> lm.model, label_map |-> ll.label_map, raised |-> ll.raised,
                  loads |-> ml \cup (IF ll.attempted THEN {"_label_map"} ELSE {})]

MaxOf(preds) == CHOOSE v \in {preds[i] : i \in DOMAIN preds} :
                    \A i \in DOMAIN preds : preds[i] <= v

ArgMax(preds) == CHOOSE i \in DOMAIN preds :
                    /\ preds[i] = MaxOf(preds)
                    /\ \A j \in DOMAIN preds : preds[j] = MaxOf(preds) => i <= j

LabelOf(l, id) ==
    IF l.keys = "int" /\ id \in DOMAIN l.items THEN l.items[id] ELSE "UNKNOWN"

FailureLabel == "ERROR"

Predict(m, l, img) ==
    IF ~m.loaded \/ ~l.loaded THEN Prediction(FailureLabel, Zero)
    ELSE IF ~img.decodable \/ img.inference = "raise" THEN Prediction(FailureLabel, Zero)
    ELSE Prediction(LabelOf(l, ArgMax(img.preds)), Rat(MaxOf(img.preds), 100))

ClassIds == 0..(NumClasses - 1)
Labels == {"lunch_bag", "mug"}
LabelItems == UNION {[ids -> Labels] : ids \in SUBSET ClassIds}
Scores == {10, 90}

Files ==
    [model : {"missing", "corrupt", "ok"}, labels : {"missing", "bad_json"}, items : {<<>>}]
    \cup [model : {"missing", "corrupt", "ok"}, labels : {"bad_keys", "ok"}, items : LabelItems]

NoPreds == [i \in ClassIds |-> 0]

Photos ==
    {[decodable |-> FALSE, inference |-> "ok", preds |-> NoPreds],
     [decodable |-> TRUE, inference |-> "raise", preds |-> NoPreds]}
    \cup [decodable : {TRUE}, inference : {"ok"}, preds : [ClassIds -> Scores]]

NoPhoto ==
    [files |-> [model |-> "missing", labels |-> "missing", items |-> <<>>],
     img |-> [decodable |-> FALSE, inference |-> "ok", preds |-> NoPreds]]

----------------------------------------------------------------------------
(* app.py: service initialization, search_related_products and detect_product *)

Row(description, code) == [Description |-> description, StockCode |-> code]
Catalogs == {{}, {Row("Lunch Bag", "22384")}}

(* df_products is left undefined when the CSV cannot be read; vector_db is None
   when the index cannot be reached *)
Apps == [df_defined : {TRUE}, catalog : Catalogs, vector_db : BOOLEAN]
        \cup [df_defined : {FALSE}, catalog : {{}}, vector_db : BOOLEAN]
NoApp == [df_defined |-> FALSE, catalog |-> {}, vector_db |-> FALSE]

(* str(Description).lower().strip().replace(' ', '_') *)
FormatDescription(d) ==
    CASE d = "Lunch Bag" -> "lunch_bag"
      [] d = "Mug" -> "mug"
      [] OTHER -> d

(* predicted_class.lower() *)
LowerLabel(label) ==
    CASE label = "ERROR" -> "error"
      [] label = "UNKNOWN" -> "unknown"
      [] OTHER -> label

(* predicted_class.replace("_", " ") *)
Readable(label) ==
    CASE label = "lunch_bag" -> "lunch bag"
      [] OTHER -> label

Match(id, score) == [id |-> id, score |-> score]
SearchOutcomes ==
    {[kind |-> "raise", matches |-> <<>>],
     [kind |-> "matches", matches |-> <<>>],
     [kind |-> "matches", matches |-> <<Match("22384", 90)>>]}

(* What search_related_products returns, and the query the index was asked *)
SearchRelatedProducts(a, query_text, found) ==
    IF ~a.vector_db THEN [kind |-> "return", products |-> <<>>, searched |-> ""]
    ELSE IF found.kind = "raise"
    THEN [kind |-> "raise", products |-> <<>>, searched |-> query_text]
    ELSE [kind |-> "return",
          products |-> [i \in 1..Len(found.matches) |->
                           [stock_code |-> found.matches[i].id,
                            score |-> found.matches[i].score]],
          searched |-> query_text]

NoResponse ==
    [status |-> 0, detected_class |-> "", detected_label |-> "", products |-> <<>>,
     searched |-> ""]
UnknownResponse ==
    [status |-> 200, detected_class |-> "UNKNOWN", detected_label |-> "",
     products |-> <<>>, searched |-> ""]
ErrorResponse(searched) ==
    [status |-> 500, detected_class |-> "ERROR", detected_label |-> "",
     products |-> <<>>, searched |-> searched]

(* The body of detect_product after the classifier call, with its except clause *)
Respond(a, p, found) ==
    IF p.kind = "raise" THEN ErrorResponse("")
    ELSE IF p.label = "UNKNOWN" THEN UnknownResponse
    ELSE IF ~a.df_defined THEN ErrorResponse("")
    ELSE LET rows == {row \in a.catalog :
                         FormatDescription(row.Description) = LowerLabel(p.label)}
             row  == CHOOSE x \in rows : TRUE
             description == IF rows = {} THEN Readable(p.label) ELSE row.Description
             real_stock_code == IF rows = {} THEN "UNKNOWN" ELSE row.StockCode
             related == SearchRelatedProducts(a, description, found)
         IN  IF related.kind = "raise" THEN ErrorResponse(related.searched)
             ELSE [status |-> 200, detected_class |-> real_stock_code,
                   detected_label |-> p.label, products |-> related.products,
                   searched |-> related.searched]

----------------------------------------------------------------------------
(* The OCR request *)

Init ==
    /\ GEMINI_API_KEY \in BOOLEAN
    /\ pc = "idle"
    /\ image = Undecodable
    /\ calls = <<>>
    /\ result = InitResult
    /\ raised = FALSE
    /\ _model = NoModel
    /\ _label_map = NoLabelMap
    /\ photo = NoPhoto
    /\ prediction = NoPrediction
    /\ loads = {}
    /\ app = NoApp
    /\ response = NoResponse

(* One call of extract_text_with_fallback, on any image of `images` *)
ExtractTextWithFallback(images) ==
    /\ pc = "idle"
    /\ \E img \in images :
          /\ LET a == Arbitrate(GEMINI_API_KEY, img)
             IN  /\ calls' = a.calls
                 /\ raised' = a.raised
                 /\ result' = IF a.raised THEN a.result ELSE Finish(a.result)
          /\ image' = img
    /\ pc' = "done"
    /\ UNCHANGED <<GEMINI_API_KEY, _model, _label_map, photo, prediction, loads,
                   app, response>>

(* One call of predict_stockcode_from_image, with the files as they are at the call *)
PredictStockcodeFromImage(fileStates, photos) ==
    /\ pc = "idle"
    /\ \E files \in fileStates, img \in photos :
          /\ LET r == LoadResources(_model, _label_map, files)
             IN  /\ _model' = r.model
                 /\ _label_map' = r.label_map
                 /\ raised' = r.raised
                 /\ loads' = r.loads
                 /\ prediction' = IF r.raised THEN PredictionRaised
                                  ELSE Predict(r.model, r.label_map, img)
          /\ photo' = [files |-> files, img |-> img]
    /\ pc' = "done"
    /\ UNCHANGED <<GEMINI_API_KEY, image, calls, result, app, response>>

(* One detect-product request: the classifier call, the catalog lookup and the
   search for related products, inside the handler's try *)
DetectProduct(fileStates, photos) ==
    /\ pc = "idle"
    /\ \E files \in fileStates, img \in photos, found \in SearchOutcomes :
          /\ LET r == LoadResources(_model, _label_map, files)
                 p == IF r.raised THEN PredictionRaised
                      ELSE Predict(r.model, r.label_map, img)
             IN  /\ _model' = r.model
                 /\ _label_map' = r.label_map
                 /\ loads' = r.loads
                 /\ prediction' = p
                 /\ response' = Respond(app, p, found)
          /\ photo' = [files |-> files, img |-> img]
    /\ raised' = FALSE
    /\ pc' = "done"
    /\ UNCHANGED <<GEMINI_API_KEY, image, calls, result, app>>

RequestDone ==
    /\ pc = "done"
    /\ pc' = "idle"
    /\ image' = Undecodable
    /\ calls' = <<>>
    /\ result' = InitResult
    /\ raised' = FALSE
    /\ photo' = NoPhoto
    /\ prediction' = NoPrediction
    /\ loads' = {}
    /\ response' = NoResponse
    /\ UNCHANGED <<GEMINI_API_KEY, _model, _label_map, app>>

Next ==
    \/ ExtractTextWithFallback(Images)
    \/ RequestDone

Spec == Init /\ [][Next]_vars

(* The classifier, over every state of its files and every short score vector *)

NextCnn ==
    \/ PredictStockcodeFromImage(Files, Photos)
    \/ RequestDone

SpecCnn == Init /\ [][NextCnn]_vars

(* The detect-product request, for every outcome of service initialization *)

InitDetect ==
    /\ GEMINI_API_KEY \in BOOLEAN
    /\ pc = "idle"
    /\ image = Undecodable
    /\ calls = <<>>
    /\ result = InitResult
    /\ raised = FALSE
    /\ _model = NoModel
    /\ _label_map = NoLabelMap
    /\ photo = NoPhoto
    /\ prediction = NoPrediction
    /\ loads = {}
    /\ app \in Apps
    /\ response = NoResponse

NextDetect ==
    \/ DetectProduct(Files, Photos)
    \/ RequestDone

SpecDetect == InitDetect /\ [][NextDetect]_vars

(* The local engine alone, on every short list of recognised tokens *)

TessWords == {<<>>, <<" ">>, <<"a">>, <<" ", "b">>}
TessConfs == {-1, 0, 29, 30, 31, 100}
TessTokens == {Token(w, c) : w \in TessWords, c \in TessConfs}
TessImages == ImagesOf({}, TessTokens, MaxTokens)

NextTess ==
    \/ ExtractTextWithFallback(TessImages)
    \/ RequestDone

SpecTess == Init /\ [][NextTess]_vars

(* The normalization, on every short text of letters, digits and blanks *)

NormChars == {"A", "S", "o", "0", "1", "5", " "}
NormTexts == StrUpTo(NormChars, MaxNormLen)
NormTokens == {Token(<<"1", "O">>, 100), Token(<<"5">>, 100)}
NormImages == ImagesOf(NormTexts, NormTokens, MaxTokens)

NextNorm ==
    \/ ExtractTextWithFallback(NormImages)
    \/ RequestDone

SpecNorm == Init /\ [][NextNorm]_vars

----------------------------------------------------------------------------
(* What the claims speak of: the finished request and what each engine returned *)

Done == pc = "done"

CloudCalled == Done /\ calls # <<>> /\ calls[1].engine = "gemini" /\ calls[1].out.kind = "return"
LocalCalled ==
    Done /\ calls # <<>> /\ calls[Len(calls)].engine = "tesseract"
         /\ calls[Len(calls)].out.kind = "return"
CloudRet == calls[1].out.value
LocalRet == calls[Len(calls)].out.value

(* C1: with a credential, cloud confidence in [0, 0.8) and non-empty cloud text, the
   local engine is consulted too and the result carries the source and confidence of
   the engine with the higher confidence, the cloud engine on a tie. *)
C1_HigherConfidenceWins ==
    (CloudCalled /\ GEMINI_API_KEY /\ RatLe(Zero, CloudRet.confidence)
        /\ RatLt(CloudRet.confidence, Rat(8, 10)) /\ CloudRet.text # <<>>)
    => /\ ~raised
       /\ Len(calls) = 2
       /\ LocalCalled
       /\ IF RatLt(CloudRet.confidence, LocalRet.confidence)
          THEN result.ocr_source = "tesseract" /\ result.confidence = LocalRet.confidence
          ELSE result.ocr_source = "gemini" /\ result.confidence = CloudRet.confidence

C1_TieWitness ==
    /\ CloudCalled /\ LocalCalled /\ Len(calls) = 2
    /\ CloudRet.text # <<>>
    /\ CloudRet.confidence = Rat(7, 10)
    /\ LocalRet.confidence = Rat(7, 10)
    /\ result.ocr_source = "gemini"

(* C2: whenever the cloud engine reports confidence >= 0.8 the result has source
   cloud, the cloud confidence and the cloud text, whatever the local engine would
   have returned for the image. *)
C2_CloudAcceptedOutright ==
    (CloudCalled /\ RatLe(Rat(8, 10), CloudRet.confidence))
    => /\ ~raised
       /\ result.ocr_source = "gemini"
       /\ result.confidence = CloudRet.confidence
       /\ result.extracted_text = CloudRet.text

C2_Witness ==
    /\ CloudCalled /\ RatLe(Rat(8, 10), CloudRet.confidence)
    /\ image.local = LocalData(<<Token(<<"b">>, 100)>>)
    /\ result.ocr_source = "gemini"
    /\ result.extracted_text # <<>>

(* C3: with a credential, when the cloud engine yields empty text with confidence
   below 0.8, the result is the local engine's text and confidence with source local,
   however the two confidences compare. *)
C3_LocalFallbackUnconditional ==
    (CloudCalled /\ GEMINI_API_KEY /\ RatLt(CloudRet.confidence, Rat(8, 10))
        /\ CloudRet.text = <<>>)
    => /\ ~raised
       /\ Len(calls) = 2
       /\ LocalCalled
       /\ result.ocr_source = "tesseract"
       /\ result.confidence = LocalRet.confidence
       /\ result.extracted_text = LocalRet.text

C3_Witness ==
    /\ CloudCalled /\ LocalCalled /\ Len(calls) = 2
    /\ CloudRet.text = <<>>
    /\ CloudRet.confidence = Rat(7, 10)
    /\ LocalRet.confidence = Zero
    /\ result.ocr_source = "tesseract"

(* C4: an exception inside either engine is caught there and becomes text "" with
   confidence 0.0; every engine call returns and extract_text_with_fallback always
   returns a result record. *)
CloudFails == ~image.decodable \/ image.cloud.kind = "raise"
LocalFails == ~image.decodable \/ image.local.kind = "raise"

C4_EngineExceptionsContained ==
    Done =>
      /\ ~raised
      /\ \A i \in 1..Len(calls) :
            /\ calls[i].out.kind = "return"
            /\ ((calls[i].engine = "gemini" /\ CloudFails)
                  \/ (calls[i].engine = "tesseract" /\ LocalFails))
               => (calls[i].out.value.text = <<>> /\ calls[i].out.value.confidence = Zero)

C4_Witness ==
    /\ Done /\ Len(calls) = 2
    /\ image.decodable /\ image.cloud.kind = "raise" /\ image.local.kind = "raise"
    /\ ~raised
    /\ result.ocr_source = "tesseract" /\ result.confidence = Zero

(* C5: the advisory note is set exactly when the final confidence is below 0.5. *)
C5_NoteIffBelowHalf ==
    Done => /\ ~raised
            /\ (result.notes = LowConfidenceNote) <=> RatLt(result.confidence, Rat(1, 2))
            /\ result.notes \in {"", LowConfidenceNote}

C5_Witness ==
    /\ Done /\ result.confidence = Rat(1, 2) /\ result.notes = ""

(* C6: without a credential the result source is always local. *)
C6_NoKeyLocalOnly ==
    (Done /\ ~GEMINI_API_KEY) => (~raised /\ result.ocr_source = "tesseract")

C6_Witness ==
    /\ Done /\ ~GEMINI_API_KEY /\ image.decodable /\ image.local.kind = "raise"
    /\ result.ocr_source = "tesseract" /\ result.confidence = Zero

(* C7: the cloud engine returning "Hello015" is accepted verbatim with source cloud
   and confidence 0.95, without advisory note; the normalized text is "hellools"
   (the claim as written has "hello ols"). *)
C7_Case == Done /\ GEMINI_API_KEY /\ image.decodable /\ image.cloud = CloudText(Hello015)

C7_Hello015Example ==
    C7_Case =>
      /\ ~raised
      /\ result.ocr_source = "gemini"
      /\ result.confidence = Rat(95, 100)
      /\ result.extracted_text = Hello015
      /\ result.cleaned_text = <<"h", "e", "l", "l", "o", "o", "l", "s">>
      /\ result.notes = ""

C7_Witness == C7_Case /\ result.ocr_source = "gemini" /\ Len(calls) = 1

C7_AsWritten ==
    C7_Case =>
      /\ result.ocr_source = "gemini"
      /\ result.confidence = Rat(95, 100)
      /\ result.extracted_text = Hello015
      /\ result.cleaned_text = <<"h", "e", "l", "l", "o", " ", "o", "l", "s">>
      /\ result.notes = ""

(* C8: the local engine's confidence is the mean of the surviving tokens' confidences
   divided by 100, and 0.0 when none survives; it lies in [0, 1].  A token survives
   exactly when its confidence is above 30 and its text is not blank (the claim as
   written lets a token of confidence exactly 30 survive). *)
NonBlank(w) == \E j \in 1..Len(w) : w[j] \notin Whitespace

RECURSIVE ConfSum(_, _)
ConfSum(data, S) ==
    IF S = {} THEN 0
    ELSE LET i == CHOOSE k \in S : TRUE IN data[i].conf + ConfSum(data, S \ {i})

MeanOver(conf, data, S) ==
    IF S = {} THEN conf = Zero
    ELSE conf.num * Cardinality(S) * 100 = ConfSum(data, S) * conf.den

C8_Case == LocalCalled /\ image.decodable /\ image.local.kind = "data"

C8_LocalConfidenceMean ==
    C8_Case =>
      /\ MeanOver(LocalRet.confidence, image.local.data,
                  {i \in 1..Len(image.local.data) :
                      image.local.data[i].conf > 30 /\ NonBlank(image.local.data[i].text)})
      /\ RatLe(Zero, LocalRet.confidence)
      /\ RatLe(LocalRet.confidence, Rat(1, 1))

C8_Witness ==
    /\ C8_Case
    /\ \E i \in 1..Len(image.local.data) :
          image.local.data[i].conf = 30 /\ NonBlank(image.local.data[i].text)
    /\ \E i \in 1..Len(image.local.data) :
          image.local.data[i].conf = 31 /\ NonBlank(image.local.data[i].text)
    /\ LocalRet.confidence = Rat(31, 100)

C8_AsWritten ==
    C8_Case =>
      /\ MeanOver(LocalRet.confidence, image.local.data,
                  {i \in 1..Len(image.local.data) :
                      image.local.data[i].conf >= 30 /\ NonBlank(image.local.data[i].text)})
      /\ RatLe(Zero, LocalRet.confidence)
      /\ RatLe(LocalRet.confidence, Rat(1, 1))

(* C9: normalization is idempotent, and normalized text holds none of the
   characters '0', '1', '5'. *)
C9_NormalizationIdempotent ==
    (Done /\ ~raised) =>
      /\ Postprocess(result.cleaned_text) = result.cleaned_text
      /\ \A i \in 1..Len(result.cleaned_text) : result.cleaned_text[i] \notin {"0", "1", "5"}

C9_Witness ==
    /\ Done
    /\ \E i \in 1..Len(result.extracted_text) : result.extracted_text[i] = "5"
    /\ \E i \in 1..Len(result.extracted_text) : result.extracted_text[i] = "A"
    /\ \E i \in 1..Len(result.extracted_text) : result.extracted_text[i] = " "
    /\ result.cleaned_text # result.extracted_text
    /\ result.ocr_source = "gemini"

(* C10: predict_stockcode_from_image returns the label "UNKNOWN" on every failure:
   a model or label map handle unavailable, image decoding or inference raising. *)
C10_Failure ==
    /\ Done
    /\ prediction.kind # "none"
    /\ \/ ~_model.loaded
       \/ ~_label_map.loaded
       \/ ~photo.img.decodable
       \/ photo.img.inference = "raise"

C10_UnknownOnFailure ==
    C10_Failure => (prediction.kind = "return" /\ prediction.label = "UNKNOWN")

(* C13: in one call of extract_text_with_fallback each engine is invoked at most
   once, the cloud engine before the local one; the cloud engine is invoked exactly
   when a credential is configured, the local engine exactly when no credential is
   configured or the cloud confidence is below 0.8; the source is never "none". *)
CallsOf(engine) == {i \in 1..Len(calls) : calls[i].engine = engine}

C13_EngineCallOrder ==
    Done =>
      /\ ~raised
      /\ Cardinality(CallsOf("gemini")) <= 1
      /\ Cardinality(CallsOf("tesseract")) <= 1
      /\ CallsOf("gemini") \cup CallsOf("tesseract") = 1..Len(calls)
      /\ \A i \in CallsOf("gemini"), j \in CallsOf("tesseract") : i < j
      /\ (CallsOf("gemini") # {}) <=> GEMINI_API_KEY
      /\ (CallsOf("tesseract") # {})
            <=> (~GEMINI_API_KEY \/ RatLt(calls[1].out.value.confidence, Rat(8, 10)))
      /\ result.ocr_source # "none"

C13_Witness ==
    /\ Done /\ GEMINI_API_KEY /\ Len(calls) = 2
    /\ calls[1].engine = "gemini" /\ calls[2].engine = "tesseract"
    /\ result.ocr_source = "gemini"
    /\ RatLt(result.confidence, calls[2].out.value.confidence) = FALSE
    /\ calls[2].out.value.text # <<>>

(* C12: across any sequence of predict_stockcode_from_image calls, a classifier
   handle that is not None is never reassigned by a later call, and a load of a
   handle is attempted only while that handle is still None. *)
C12_HandlesInitializedOnce ==
    [][/\ _model.loaded => (_model' = _model /\ "_model" \notin loads')
       /\ _label_map.loaded => (_label_map' = _label_map /\ "_label_map" \notin loads')]_vars

C12_Witness ==
    /\ Done /\ prediction.kind = "return"
    /\ _model.loaded /\ _label_map.loaded
    /\ loads = {}
    /\ photo.files.model = "ok" /\ photo.files.labels = "ok"
    /\ photo.files.items # _label_map.items

(* C11: in the detect-product request every classifier failure (classifier missing,
   loading or inference raising) is caught and degrades to a placeholder response: a
   sentinel label "UNKNOWN" or "ERROR" with an empty product list, no failure
   propagating and no index search made on the sentinel label. *)
C11_ClassifierFailure ==
    /\ Done
    /\ response.status # 0
    /\ \/ prediction.kind = "raise"
       \/ ~_model.loaded
       \/ ~_label_map.loaded
       \/ ~photo.img.decodable
       \/ photo.img.inference = "raise"

====
